---- MODULE Spec2Model ----
(***************************************************************************)
(* A model of package gl_utils: the texture wrapper of texture.go over the *)
(* OpenGL texture state it drives, and the geometry helpers of math.go.    *)
(*                                                                         *)
(* Spec      the texture operations acting on the graphics device          *)
(* SpecMath  CircleToPolygon and GetBoundingBox applied to drawn inputs    *)
(***************************************************************************)
EXTENDS Integers, Sequences, FiniteSets, TLC

VARIABLES
    dev,          \* the graphics device: texture names, active unit, TEXTURE_2D binding per unit
    textures,     \* the Texture structs allocated so far; a *Texture is an index into it
    calls,        \* the graphics-device calls issued by the last operation, in order
    last,         \* the last operation: its name, its inputs and what it returned
    nCreate,      \* number of NewTextureFromImage and NewEmptyTexture calls so far
    nStrideFail,  \* number of "unsupported stride" diagnostics printed so far
    input,        \* SpecMath: the call drawn for the geometry helpers
    output        \* SpecMath: what the helper returned (<<>> until it has run)

vars == <<dev, textures, calls, last, nCreate, nStrideFail, input, output>>
texVars == <<dev, textures, calls, last, nCreate, nStrideFail>>
mathVars == <<input, output>>

(***************************************************************************)
(* Bounds of the model.                                                    *)
(***************************************************************************)
MaxCreate == 2      \* texture creations in one run
MaxDim == 2         \* largest image width and height
MaxUnit == 1        \* texture units 0..MaxUnit of the device
MaxSegments == 5    \* largest numSegments given to CircleToPolygon
MaxPoints == 3      \* longest point list given to GetBoundingBox

(***************************************************************************)
(* The graphics device (package gl).  A call acts on the texture bound to  *)
(* TEXTURE_2D of the active unit; every call is appended to the log with   *)
(* the texture that was bound when it was made.                            *)
(***************************************************************************)
TEXTURE0 == 0

Units == 0..MaxUnit

Bound(g) == g.binding[g.active]

Logged(g, fn, args) == Append(g.log, [fn |-> fn, args |-> args, on |-> Bound(g)])

\* the name glGenTextures hands out: one not in use (nothing is ever deleted)
NewName(g) == Cardinality(g.names) + 1

GenTextures(g) ==
    [g EXCEPT !.names = @ \cup {NewName(g)},
              !.log = Logged(g, "GenTextures", <<1>>)]

ActiveTexture(g, unit) ==
    [g EXCEPT !.active = unit,
              !.log = Logged(g, "ActiveTexture", <<unit>>)]

BindTexture(g, id) ==
    [g EXCEPT !.binding[g.active] = id,
              !.log = Logged(g, "BindTexture", <<"TEXTURE_2D", id>>)]

TexParameteri(g, pname, param) ==
    [g EXCEPT !.log = Logged(g, "TexParameteri", <<"TEXTURE_2D", pname, param>>)]

TexImage2D(g, internalformat, width, height, format, xtype, pixels) ==
    [g EXCEPT !.log = Logged(g, "TexImage2D",
        [internalformat |-> internalformat, width |-> width, height |-> height,
         format |-> format, xtype |-> xtype, pixels |-> pixels])]

(***************************************************************************)
(* Images (package image).  An image has a concrete type, a bounds         *)
(* rectangle and, when it owns a pixel buffer, that buffer (Pix, Stride).  *)
(***************************************************************************)
Dx(r) == r.max[1] - r.min[1]
Dy(r) == r.max[2] - r.min[2]

BytesPerPixel(type) ==
    CASE type = "Gray" -> 1
      [] type = "Gray16" -> 2
      [] OTHER -> 4

\* image.ZR, the empty rectangle
ZR == [min |-> <<0, 0>>, max |-> <<0, 0>>]

\* Rectangle.Empty
Empty(r) == r.min[1] >= r.max[1] \/ r.min[2] >= r.max[2]

Larger(a, b) == IF a < b THEN b ELSE a

Smaller(a, b) == IF a > b THEN b ELSE a

\* Rectangle.Intersect
Intersect(r, s) ==
    LET t == [min |-> <<Larger(r.min[1], s.min[1]), Larger(r.min[2], s.min[2])>>,
              max |-> <<Smaller(r.max[1], s.max[1]), Smaller(r.max[2], s.max[2])>>]
    IN  IF Empty(t) THEN ZR ELSE t

\* Rectangle.Add
Shift(r, p) ==
    [min |-> <<r.min[1] + p[1], r.min[2] + p[2]>>,
     max |-> <<r.max[1] + p[1], r.max[2] + p[2]>>]

\* a pixel buffer: who allocated it, its row stride and its length; the
\* image type whose pixels it holds ("" when it was never written), the
\* rectangle of the image it belongs to that holds them, and the point of
\* the source image the first of them was taken from
Buffer(alloc, stride, r, from, drawn, sp) ==
    [alloc |-> alloc, stride |-> stride, len |-> stride * Dy(r),
     from |-> from, drawn |-> drawn, sp |-> sp]

\* image.NewGray(r): one byte a pixel, rows of 1 * Dx bytes, all zero
NewGray(r) ==
    [type |-> "Gray", Rect |-> r, Stride |-> 1 * Dx(r),
     Pix |-> Buffer("NewGray", 1 * Dx(r), r, "", ZR, <<0, 0>>)]

\* image.NewRGBA(r): four bytes a pixel, rows of 4 * Dx bytes, all zero
NewRGBA(r) ==
    [type |-> "RGBA", Rect |-> r, Stride |-> 4 * Dx(r),
     Pix |-> Buffer("NewRGBA", 4 * Dx(r), r, "", ZR, <<0, 0>>)]

\* draw.Draw(dst, r, src, sp, draw.Src): r is clipped to dst's bounds and
\* to src's bounds moved so that sp lies on r.Min; the pixels of dst in the
\* clipped rectangle are replaced by the pixels of src from the moved sp on,
\* converted to dst's colour model; an empty rectangle draws nothing
Draw(dst, r, src, sp) ==
    LET orig == r.min
        clipped == Intersect(Intersect(r, dst.Rect),
                             Shift(src.Rect, <<orig[1] - sp[1], orig[2] - sp[2]>>))
        moved == <<sp[1] + clipped.min[1] - orig[1], sp[2] + clipped.min[2] - orig[2]>>
    IN  IF Empty(clipped)
        THEN dst
        ELSE [dst EXCEPT !.Pix.from = src.type, !.Pix.drawn = clipped, !.Pix.sp = moved]

(***************************************************************************)
(* texture.go.  Every operation takes the device g (with an empty log) and *)
(* returns the device after its calls, what it returned (ret: <<>> for a   *)
(* nil *Texture, <<t>> for a texture), what it printed, and how many times *)
(* NewTextureFromImage ran.                                                *)
(***************************************************************************)
StrideError == "Error creating texture: unsupported stride"

Outcome(g, ret, printed, images) ==
    [gl |-> g, ret |-> ret, printed |-> printed, images |-> images]

\* Configure setting the sampler parameters before the new texture is bound
Configure_ParamsBeforeBind(g, id) ==
    LET g1 == GenTextures(g)
        g2 == ActiveTexture(g1, TEXTURE0)
        g3 == TexParameteri(g2, "TEXTURE_MIN_FILTER", "LINEAR")
        g4 == TexParameteri(g3, "TEXTURE_MAG_FILTER", "LINEAR")
        g5 == TexParameteri(g4, "TEXTURE_WRAP_S", "CLAMP_TO_EDGE")
        g6 == TexParameteri(g5, "TEXTURE_WRAP_T", "CLAMP_TO_EDGE")
    IN  BindTexture(g6, id)

\* lines 46-52 and 105-111: allocate a name, select unit 0, bind the new
\* texture and set its four sampler parameters
Configure(g, id) ==
    LET g1 == GenTextures(g)
        g2 == ActiveTexture(g1, TEXTURE0)
        g3 == BindTexture(g2, id)
        g4 == TexParameteri(g3, "TEXTURE_MIN_FILTER", "LINEAR")
        g5 == TexParameteri(g4, "TEXTURE_MAG_FILTER", "LINEAR")
        g6 == TexParameteri(g5, "TEXTURE_WRAP_S", "CLAMP_TO_EDGE")
    IN  TexParameteri(g6, "TEXTURE_WRAP_T", "CLAMP_TO_EDGE")

\* case *image.Gray16: the device after the case, and whether it returned nil
UploadGray16(g, texture, imageData) ==
    LET grayImage == NewGray(imageData.Rect)
    IN  IF grayImage.Stride # Dx(grayImage.Rect) * 1
        THEN [gl |-> g, failed |-> TRUE]
        ELSE [gl |-> TexImage2D(g, "RED", texture.width, texture.height,
                                "RED", "UNSIGNED_BYTE",
                                Draw(grayImage, grayImage.Rect, imageData, <<0, 0>>).Pix),
              failed |-> FALSE]

\* case *image.NRGBA: the image's own Pix is handed to the device
UploadNRGBA(g, texture, imageData) ==
    LET pixelData == imageData.Pix
    IN  [gl |-> TexImage2D(g, "RGBA", texture.width, texture.height,
                           "RGBA", "UNSIGNED_BYTE", pixelData),
         failed |-> FALSE]

\* default: every other image type
UploadOther(g, texture, imageData) ==
    LET rgba == NewRGBA(imageData.Rect)
    IN  IF rgba.Stride # Dx(rgba.Rect) * 4
        THEN [gl |-> g, failed |-> TRUE]
        ELSE [gl |-> TexImage2D(g, "RGBA", texture.width, texture.height,
                                "RGBA", "UNSIGNED_BYTE",
                                Draw(rgba, rgba.Rect, imageData, <<0, 0>>).Pix),
              failed |-> FALSE]

\* the type switch without its NRGBA case: NRGBA images are converted too
Upload_NoNRGBACase(g, texture, imageData) ==
    CASE imageData.type = "Gray16" -> UploadGray16(g, texture, imageData)
      [] OTHER -> UploadOther(g, texture, imageData)

\* switch imageData.(type)
Upload(g, texture, imageData) ==
    CASE imageData.type = "Gray16" -> UploadGray16(g, texture, imageData)
      [] imageData.type = "NRGBA" -> UploadNRGBA(g, texture, imageData)
      [] OTHER -> UploadOther(g, texture, imageData)

\* NewTextureFromImage taking the width from Dy and the height from Dx
NewTextureFromImage_Swapped(g, imageData) ==
    LET texture == [id |-> NewName(g),
                    width |-> Dy(imageData.Rect),
                    height |-> Dx(imageData.Rect)]
        up == Upload(Configure(g, texture.id), texture, imageData)
    IN  IF up.failed
        THEN Outcome(up.gl, <<>>, <<StrideError>>, 1)
        ELSE Outcome(BindTexture(up.gl, 0), <<texture>>, <<>>, 1)

\* NewTextureFromImage returning the texture while it is still bound
NewTextureFromImage_NoUnbind(g, imageData) ==
    LET texture == [id |-> NewName(g),
                    width |-> Dx(imageData.Rect),
                    height |-> Dy(imageData.Rect)]
        up == Upload(Configure(g, texture.id), texture, imageData)
    IN  IF up.failed
        THEN Outcome(up.gl, <<>>, <<StrideError>>, 1)
        ELSE Outcome(up.gl, <<texture>>, <<>>, 1)

\* int32(Bounds().Dx()) is exact for every width the model's 32-bit
\* integers hold, so the narrowing is not written out
NewTextureFromImage(g, imageData) ==
    LET texture == [id |-> NewName(g),
                    width |-> Dx(imageData.Rect),
                    height |-> Dy(imageData.Rect)]
        up == Upload(Configure(g, texture.id), texture, imageData)
    IN  IF up.failed
        THEN Outcome(up.gl, <<>>, <<StrideError>>, 1)
        ELSE Outcome(BindTexture(up.gl, 0), <<texture>>, <<>>, 1)

\* NewTextureFromFile allocating the texture name before it opens the file
NewTextureFromFile_GenFirst(g, file) ==
    IF ~file.open
    THEN Outcome(GenTextures(g), <<>>, <<"Error loading texture">>, 0)
    ELSE IF file.image = <<>>
    THEN Outcome(GenTextures(g), <<>>, <<"Error decoding image">>, 0)
    ELSE NewTextureFromImage(g, file.image[1])

\* file: what os.Open and image.Decode make of the path
\*   [open |-> FALSE]                    os.Open fails
\*   [open |-> TRUE, image |-> <<>>]     image.Decode fails
\*   [open |-> TRUE, image |-> <<img>>]  decodedImage = img
NewTextureFromFile(g, file) ==
    IF ~file.open
    THEN Outcome(g, <<>>, <<"Error loading texture">>, 0)
    ELSE IF file.image = <<>>
    THEN Outcome(g, <<>>, <<"Error decoding image">>, 0)
    ELSE NewTextureFromImage(g, file.image[1])

NewEmptyTexture(g, width, height, pixelFormat) ==
    LET bounds == [min |-> <<0, 0>>, max |-> <<width, height>>]
        imageData == NewRGBA(bounds)
        texture == [id |-> NewName(g),
                    width |-> Dx(imageData.Rect),
                    height |-> Dy(imageData.Rect)]
        g7 == Configure(g, texture.id)
        g8 == TexImage2D(g7, pixelFormat, texture.width, texture.height,
                         pixelFormat, "UNSIGNED_BYTE", imageData.Pix)
    IN  Outcome(BindTexture(g8, 0), <<texture>>, <<>>, 0)

Bind(g, t) == BindTexture(g, t.id)

Unbind(g, t) == BindTexture(g, 0)

ID(t) == t.id

Width(t) == t.width

Height(t) == t.height

(***************************************************************************)
(* Inputs of the texture operations.                                       *)
(***************************************************************************)
ImageTypes == {"Gray16", "NRGBA", "RGBA", "Gray"}

Rects ==
    {[min |-> m, max |-> <<m[1] + w, m[2] + h>>] :
        m \in {<<0, 0>>, <<1, 2>>}, w \in 1..MaxDim, h \in 1..MaxDim}

\* an image that owns its buffer; ownPad > 0 is a view of a wider image
\* (SubImage), whose rows are longer than its width
Image(type, r, ownPad) ==
    [type |-> type, Rect |-> r,
     Stride |-> BytesPerPixel(type) * Dx(r) + ownPad,
     Pix |-> Buffer("imageData", BytesPerPixel(type) * Dx(r) + ownPad, r, type, r, r.min)]

\* the images given to NewTextureFromImage; the NRGBA ones, whose buffer is
\* uploaded as it is, come with tight and with padded rows
Images ==
    {Image(t, r, 0) : t \in ImageTypes, r \in Rects}
    \cup {Image("NRGBA", r, 4) : r \in Rects}

\* a decoder returns an image that starts at (0, 0) and has tight rows
Decoded == {i \in Images : i.Rect.min = <<0, 0>> /\ i.Stride = BytesPerPixel(i.type) * Dx(i.Rect)}

Files ==
    {[open |-> FALSE, image |-> <<>>], [open |-> TRUE, image |-> <<>>]}
    \cup {[open |-> TRUE, image |-> <<i>>] : i \in Decoded}

PixelFormats == {"RGBA", "RED"}

(***************************************************************************)
(* The state machine of the texture operations.                            *)
(***************************************************************************)
Start(d) == [names |-> d.names, active |-> d.active, binding |-> d.binding, log |-> <<>>]

Device(g) == [names |-> g.names, active |-> g.active, binding |-> g.binding]

Count(seq, x) == Cardinality({i \in 1..Len(seq) : seq[i] = x})

\* no geometry call is drawn in the texture state machine
NoInput == [fn |-> "", center |-> <<0, 0>>, radius |-> 0, numSegments |-> 0,
            startAngle |-> 0, points |-> <<>>]

NoCall == [op |-> "", image |-> <<>>, file |-> <<>>, empty |-> <<>>,
           ret |-> <<>>, val |-> 0, printed |-> <<>>]

\* a creation returned r: the device, the log, the heap and the counters after it
Created(r, call, created) ==
    /\ dev' = Device(r.gl)
    /\ calls' = r.gl.log
    /\ textures' = textures \o r.ret
    /\ last' = [call EXCEPT !.ret = IF r.ret = <<>> THEN <<>> ELSE <<Len(textures) + 1>>,
                            !.printed = r.printed]
    /\ nCreate' = nCreate + created
    /\ nStrideFail' = nStrideFail + Count(r.printed, StrideError)
    /\ UNCHANGED mathVars

DoNewTextureFromImage ==
    /\ nCreate < MaxCreate
    /\ \E img \in Images :
        LET r == NewTextureFromImage(Start(dev), img)
        IN  Created(r, [NoCall EXCEPT !.op = "NewTextureFromImage",
                                      !.image = <<img>>], r.images)

DoNewTextureFromFile ==
    \E file \in Files :
        /\ file.image # <<>> => nCreate < MaxCreate
        /\ LET r == NewTextureFromFile(Start(dev), file)
           IN  Created(r, [NoCall EXCEPT !.op = "NewTextureFromFile", !.file = <<file>>,
                                         !.image = file.image], r.images)

DoNewEmptyTexture ==
    /\ nCreate < MaxCreate
    /\ \E width \in 1..MaxDim, height \in 1..MaxDim, pixelFormat \in PixelFormats :
        Created(NewEmptyTexture(Start(dev), width, height, pixelFormat),
                [NoCall EXCEPT !.op = "NewEmptyTexture",
                               !.empty = <<width, height, pixelFormat>>], 1)

\* a method of texture t that calls the device
Method(op, t, g) ==
    /\ dev' = Device(g)
    /\ calls' = g.log
    /\ last' = [NoCall EXCEPT !.op = op, !.ret = <<t>>]
    /\ UNCHANGED <<textures, nCreate, nStrideFail, mathVars>>

\* an accessor of texture t
Accessor(op, t, val) ==
    /\ calls' = <<>>
    /\ last' = [NoCall EXCEPT !.op = op, !.ret = <<t>>, !.val = val]
    /\ UNCHANGED <<dev, textures, nCreate, nStrideFail, mathVars>>

DoBind == \E t \in 1..Len(textures) : Method("Bind", t, Bind(Start(dev), textures[t]))

DoUnbind == \E t \in 1..Len(textures) : Method("Unbind", t, Unbind(Start(dev), textures[t]))

DoID == \E t \in 1..Len(textures) : Accessor("ID", t, ID(textures[t]))

DoWidth == \E t \in 1..Len(textures) : Accessor("Width", t, Width(textures[t]))

DoHeight == \E t \in 1..Len(textures) : Accessor("Height", t, Height(textures[t]))

Init ==
    /\ dev \in [names : {{}}, active : Units, binding : [Units -> {0}]]
    /\ textures = <<>>
    /\ calls = <<>>
    /\ last = NoCall
    /\ nCreate = 0
    /\ nStrideFail = 0
    /\ input = NoInput
    /\ output = <<>>

Next ==
    \/ DoNewTextureFromFile
    \/ DoNewTextureFromImage
    \/ DoNewEmptyTexture
    \/ DoBind
    \/ DoUnbind
    \/ DoID
    \/ DoWidth
    \/ DoHeight

Spec == Init /\ [][Next]_vars

(***************************************************************************)
(* math.go: CircleToPolygon.  A float32 is a fixed-point number here, in   *)
(* thousandths; an angle is a whole number of degrees, and Cos and Sin     *)
(* tabulate math.Cos and math.Sin for the angles the inputs reach.         *)
(***************************************************************************)
Cos(a) ==
    CASE a = 0 -> 1000 [] a = 45 -> 707 [] a = 60 -> 500
      [] a = 72 -> 309 [] a = 90 -> 0 [] a = 120 -> -500

Sin(a) ==
    CASE a = 0 -> 0 [] a = 45 -> 707 [] a = 60 -> 866
      [] a = 72 -> 951 [] a = 90 -> 1000 [] a = 120 -> 866

\* the product of two fixed-point numbers
Times(a, b) == (a * b) \div 1000

\* mgl32.Rotate2D(angle): Mat2{cos, sin, -sin, cos}, column major
Rotate2D(angle) == <<Cos(angle), Sin(angle), -Sin(angle), Cos(angle)>>

\* Mat2.Mul2x1
Mul2x1(m, v) ==
    <<Times(m[1], v[1]) + Times(m[3], v[2]), Times(m[2], v[1]) + Times(m[4], v[2])>>

\* Vec2.Add
Add(v, w) == <<v[1] + w[1], v[2] + w[2]>>

\* float32((math.Pi * 2.0) / float64(numSegments)), in degrees
StepAngle(numSegments) == 360 \div numSegments

\* for index := index; index < numSegments; index++ { ... }
RECURSIVE CircleLoop(_, _, _, _, _, _)
CircleLoop(index, numSegments, point, vertices, center, rotation) ==
    IF index < numSegments
    THEN LET p == Add(point, center)
         IN  CircleLoop(index + 1, numSegments, Mul2x1(rotation, point),
                        Append(vertices, p), center, rotation)
    ELSE vertices

\* CircleToPolygon testing radius < 0: a radius of 0 is let through
CircleToPolygon_ZeroRadius(center, radius, numSegments, startAngle) ==
    IF radius < 0
    THEN [vertices |-> <<>>, err |-> <<"Radius cannot be <=0">>]
    ELSE IF numSegments < 3
    THEN [vertices |-> <<>>, err |-> <<"numSegments must be >= 3">>]
    ELSE LET point == Mul2x1(Rotate2D(startAngle), <<radius, 0>>)
             rotation == Rotate2D(StepAngle(numSegments))
         IN  [vertices |-> CircleLoop(0, numSegments, point, <<>>, center, rotation),
              err |-> <<>>]

\* CircleToPolygon rotating by startAngle plus one step before the first vertex
CircleToPolygon_RotateFirst(center, radius, numSegments, startAngle) ==
    IF radius <= 0
    THEN [vertices |-> <<>>, err |-> <<"Radius cannot be <=0">>]
    ELSE IF numSegments < 3
    THEN [vertices |-> <<>>, err |-> <<"numSegments must be >= 3">>]
    ELSE LET rotation == Rotate2D(StepAngle(numSegments))
             point == Mul2x1(rotation, Mul2x1(Rotate2D(startAngle), <<radius, 0>>))
         IN  [vertices |-> CircleLoop(0, numSegments, point, <<>>, center, rotation),
              err |-> <<>>]

\* returns (vertices, err): err is <<>> for nil, vertices is <<>> for nil
CircleToPolygon(center, radius, numSegments, startAngle) ==
    IF radius <= 0
    THEN [vertices |-> <<>>, err |-> <<"Radius cannot be <=0">>]
    ELSE IF numSegments < 3
    THEN [vertices |-> <<>>, err |-> <<"numSegments must be >= 3">>]
    ELSE LET point == Mul2x1(Rotate2D(startAngle), <<radius, 0>>)
             rotation == Rotate2D(StepAngle(numSegments))
         IN  [vertices |-> CircleLoop(0, numSegments, point, <<>>, center, rotation),
              err |-> <<>>]

(***************************************************************************)
(* math.go: GetBoundingBox.  It only compares float32 values, so a float32 *)
(* is a value of an ordered set here: the finite ones are the integers     *)
(* from -MaxFloat32 to MaxFloat32, and there are the two infinities and    *)
(* NaN, compared as IEEE 754 compares them.                                *)
(***************************************************************************)
MaxFloat32 == 2147483647

Fin(n) == [k |-> "fin", v |-> n]
PosInf == [k |-> "inf", v |-> 1]
NegInf == [k |-> "inf", v |-> -1]
NaN == [k |-> "nan", v |-> 0]

\* a < b on float32: false when either is NaN
Lt(a, b) ==
    /\ a.k # "nan"
    /\ b.k # "nan"
    /\ CASE a.k = "inf" /\ b.k = "inf" -> a.v < b.v
         [] a.k = "inf" -> a.v < 0
         [] b.k = "inf" -> b.v > 0
         [] OTHER -> a.v < b.v

\* a > b on float32
Gt(a, b) == Lt(b, a)

\* the body of the range loop for the i-th point, then the rest of the loop
RECURSIVE BoxLoop(_, _, _, _, _, _)
BoxLoop(points, i, minX, minY, maxX, maxY) ==
    IF i > Len(points)
    THEN [min |-> <<minX, minY>>, max |-> <<maxX, maxY>>]
    ELSE LET p == points[i]
         IN  BoxLoop(points, i + 1,
                     IF Lt(p[1], minX) THEN p[1] ELSE minX,
                     IF Lt(p[2], minY) THEN p[2] ELSE minY,
                     IF Gt(p[1], maxX) THEN p[1] ELSE maxX,
                     IF Gt(p[2], maxY) THEN p[2] ELSE maxY)

\* GetBoundingBox with the two sentinels exchanged
GetBoundingBox_Swapped(points) ==
    BoxLoop(points, 1, Fin(-MaxFloat32), Fin(-MaxFloat32),
            Fin(MaxFloat32), Fin(MaxFloat32))

\* GetBoundingBox starting the maxima from 0 instead of -MaxFloat32
GetBoundingBox_ZeroMax(points) ==
    BoxLoop(points, 1, Fin(MaxFloat32), Fin(MaxFloat32), Fin(0), Fin(0))

GetBoundingBox(points) ==
    BoxLoop(points, 1, Fin(MaxFloat32), Fin(MaxFloat32),
            Fin(-MaxFloat32), Fin(-MaxFloat32))

(***************************************************************************)
(* Inputs of the geometry helpers, and the state machine that applies a    *)
(* helper to the call drawn in the initial state.                          *)
(***************************************************************************)
CircleCalls ==
    {[NoInput EXCEPT !.fn = "CircleToPolygon", !.center = c, !.radius = r,
                     !.numSegments = n, !.startAngle = a] :
        c \in {<<0, 0>>, <<3000, -1500>>}, r \in {-1000, 0, 500, 2000},
        n \in -1..MaxSegments, a \in {0, 45, 90}}

Points ==
    {<<Fin(1), Fin(2)>>, <<Fin(3), Fin(0)>>, <<Fin(-1), Fin(5)>>,
     <<Fin(MaxFloat32), Fin(-MaxFloat32)>>, <<Fin(-MaxFloat32), Fin(MaxFloat32)>>,
     <<NaN, Fin(0)>>, <<Fin(3), NaN>>, <<NaN, NaN>>,
     <<PosInf, Fin(2)>>, <<Fin(1), NegInf>>, <<NegInf, PosInf>>}

PointLists == UNION {[1..n -> Points] : n \in 0..MaxPoints}

BoxCalls == {[NoInput EXCEPT !.fn = "GetBoundingBox", !.points = ps] : ps \in PointLists}

MathInit ==
    /\ dev = [names |-> {}, active |-> TEXTURE0, binding |-> [u \in Units |-> 0]]
    /\ textures = <<>>
    /\ calls = <<>>
    /\ last = NoCall
    /\ nCreate = 0
    /\ nStrideFail = 0
    /\ input \in CircleCalls \cup BoxCalls
    /\ output = <<>>

DoCircleToPolygon ==
    /\ input.fn = "CircleToPolygon"
    /\ output = <<>>
    /\ output' = <<CircleToPolygon(input.center, input.radius,
                                   input.numSegments, input.startAngle)>>
    /\ UNCHANGED <<input, texVars>>

DoGetBoundingBox ==
    /\ input.fn = "GetBoundingBox"
    /\ output = <<>>
    /\ output' = <<GetBoundingBox(input.points)>>
    /\ UNCHANGED <<input, texVars>>

MathNext ==
    \/ DoCircleToPolygon
    \/ DoGetBoundingBox

SpecMath == MathInit /\ [][MathNext]_vars

(***************************************************************************)
(* Properties of the geometry helpers, under SpecMath.                     *)
(***************************************************************************)
CircleDone == input.fn = "CircleToPolygon" /\ output # <<>>

BoxDone == input.fn = "GetBoundingBox" /\ output # <<>>

\* C4: CircleToPolygon returns an error and no vertex list whenever
\* radius <= 0 or numSegments < 3, whatever the centre and the start angle
\* are, and returns no error when radius > 0 and numSegments >= 3.
C4_InvalidArgument ==
    CircleDone =>
        /\ (input.radius <= 0 \/ input.numSegments < 3)
            => (output[1].err # <<>> /\ output[1].vertices = <<>>)
        /\ (input.radius > 0 /\ input.numSegments >= 3)
            => output[1].err = <<>>

\* a call with radius 0, enough segments and a centre off the origin has failed
C4_Witness ==
    /\ CircleDone
    /\ input.radius = 0
    /\ input.numSegments = 4
    /\ input.center # <<0, 0>>
    /\ input.startAngle = 45
    /\ output[1].err # <<>>

\* C5: for radius > 0 and numSegments >= 3 the vertex list has exactly
\* numSegments points; the first is the centre plus the radius vector
\* rotated by startAngle, and each next one is the centre plus the previous
\* radius vector rotated by one step of a full turn / numSegments.
C5_Polygon ==
    (CircleDone /\ input.radius > 0 /\ input.numSegments >= 3) =>
        LET v == output[1].vertices
            c == input.center
            radial(i) == <<v[i][1] - c[1], v[i][2] - c[2]>>
            step == Rotate2D(StepAngle(input.numSegments))
        IN  /\ Len(v) = input.numSegments
            /\ radial(1) = Mul2x1(Rotate2D(input.startAngle), <<input.radius, 0>>)
            /\ \A i \in 2..Len(v) : radial(i) = Mul2x1(step, radial(i - 1))

\* a pentagon around a centre off the origin, started at 45 degrees
C5_Witness ==
    /\ CircleDone
    /\ input.radius = 2000
    /\ input.numSegments = 5
    /\ input.startAngle = 45
    /\ input.center = <<3000, -1500>>
    /\ Len(output[1].vertices) = 5
    /\ output[1].vertices[1] = <<4414, -86>>

\* the box GetBoundingBox starts from
Degenerate ==
    [min |-> <<Fin(MaxFloat32), Fin(MaxFloat32)>>,
     max |-> <<Fin(-MaxFloat32), Fin(-MaxFloat32)>>]

\* min exceeds max on an axis
MinExceedsMax(box) == Gt(box.min[1], box.max[1]) \/ Gt(box.min[2], box.max[2])

\* a <= b on float32
Le(a, b) == Lt(a, b) \/ (a.k # "nan" /\ a = b)

Coordinates(points) == {points[i][a] : i \in 1..Len(points), a \in 1..2}

\* C6 as stated: the empty list gives the degenerate box, and no other
\* call gives a box whose min exceeds its max on an axis.
C6_Original ==
    BoxDone =>
        /\ input.points = <<>> => output[1] = Degenerate
        /\ MinExceedsMax(output[1]) => input.points = <<>>

\* C6, amended: the empty list gives the degenerate box min = (+MaxFloat32,
\* +MaxFloat32), max = (-MaxFloat32, -MaxFloat32), and among the calls whose
\* points have no NaN coordinate it is the only one whose box has min
\* exceeding max on an axis.
C6_EmptyList ==
    BoxDone =>
        /\ input.points = <<>> => output[1] = Degenerate
        /\ (NaN \notin Coordinates(input.points) /\ MinExceedsMax(output[1]))
            => input.points = <<>>

\* the empty list has been given and the degenerate box returned
C6_Witness ==
    /\ BoxDone
    /\ input.points = <<>>
    /\ output[1].min = <<Fin(MaxFloat32), Fin(MaxFloat32)>>
    /\ MinExceedsMax(output[1])

\* the box is the tight box of the points, and is the same in any order
TightBox(points, box) ==
    /\ \A a \in 1..2 :
        /\ \E i \in 1..Len(points) : points[i][a] = box.min[a]
        /\ \E i \in 1..Len(points) : points[i][a] = box.max[a]
        /\ \A i \in 1..Len(points) :
            Le(box.min[a], points[i][a]) /\ Le(points[i][a], box.max[a])
        /\ Le(box.min[a], box.max[a])
    /\ \A f \in Permutations(1..Len(points)) :
        GetBoundingBox([i \in 1..Len(points) |-> points[f[i]]]) = box

\* C7 as stated: for every non-empty list the box is the tight one.
C7_Original ==
    (BoxDone /\ input.points # <<>>) => TightBox(input.points, output[1])

\* C7, amended: for every non-empty list of points whose coordinates are
\* all finite (neither NaN nor an infinity), min is (smallest X, smallest Y)
\* and max is (largest X, largest Y), so min <= max on both axes, every
\* point lies inside the box, and the order of the points does not matter.
C7_FiniteBox ==
    (/\ BoxDone
     /\ input.points # <<>>
     /\ \A c \in Coordinates(input.points) : c.k = "fin")
        => TightBox(input.points, output[1])

\* the three points (1,2), (3,0), (-1,5) have the box (-1,0)..(3,5)
C7_Witness ==
    /\ BoxDone
    /\ input.points = <<<<Fin(1), Fin(2)>>, <<Fin(3), Fin(0)>>, <<Fin(-1), Fin(5)>>>>
    /\ output[1] = [min |-> <<Fin(-1), Fin(0)>>, max |-> <<Fin(3), Fin(5)>>]

(***************************************************************************)
(* Properties of the texture operations, under Spec.                       *)
(***************************************************************************)
\* the last operation ran NewTextureFromImage (directly or from a file)
ImageCall ==
    /\ last.op \in {"NewTextureFromImage", "NewTextureFromFile"}
    /\ last.image # <<>>

\* the positions in the log of the calls of one function
CallsOf(fn) == {i \in 1..Len(calls) : calls[i].fn = fn}

\* C1: whenever NewTextureFromImage has returned, for every image type and
\* whatever it returned, the TEXTURE_2D binding of the active unit is 0.
C1_UnboundOnReturn == ImageCall => Bound(dev) = 0

\* a second texture was created from an image while the first one was
\* bound, and nothing is bound after the call
C1_Witness ==
    /\ last.op = "NewTextureFromImage"
    /\ last.ret = <<2>>
    /\ calls[1].on = textures[1].id
    /\ calls[8].on = textures[2].id
    /\ Bound(dev) = 0

\* os.Open or image.Decode fails on the file
FileFails(file) == ~file.open \/ file.image = <<>>

\* C2: when NewTextureFromFile cannot open or cannot decode the file it
\* returns nil, issues no device call and leaves the device (names, active
\* unit, bindings) as it was, and NewTextureFromImage does not run; when
\* the file decodes, NewTextureFromImage runs once on the decoded image.
C2_FileFailure ==
    [][last'.op = "NewTextureFromFile" =>
        IF FileFails(last'.file[1])
        THEN /\ last'.ret = <<>>
             /\ calls' = <<>>
             /\ dev' = dev
             /\ textures' = textures
             /\ nCreate' = nCreate
        ELSE /\ nCreate' = nCreate + 1
             /\ last'.image = last'.file[1].image
             /\ Cardinality(dev'.names) = Cardinality(dev.names) + 1]_vars

\* an undecodable file was given while a texture was bound, and it still is
C2_Witness ==
    /\ last.op = "NewTextureFromFile"
    /\ last.file[1].open
    /\ last.file[1].image = <<>>
    /\ last.ret = <<>>
    /\ calls = <<>>
    /\ Len(textures) = 1
    /\ Bound(dev) = textures[1].id

\* C3: a texture returned by NewTextureFromImage has the width and height
\* of the source image's bounds; no later operation changes the id, width
\* or height of any texture; Bind and Unbind change nothing of the device
\* but the TEXTURE_2D binding of the active unit, and ID, Width and Height
\* change nothing and return the texture's fields.
C3_DimensionsFixed ==
    [][/\ Len(textures') >= Len(textures)
       /\ \A t \in 1..Len(textures) : textures'[t] = textures[t]
       /\ (last'.image # <<>> /\ last'.ret # <<>>) =>
            /\ last'.ret[1] = Len(textures) + 1
            /\ textures'[last'.ret[1]].width = Dx(last'.image[1].Rect)
            /\ textures'[last'.ret[1]].height = Dy(last'.image[1].Rect)
       /\ last'.op \in {"Bind", "Unbind"} =>
            /\ textures' = textures
            /\ dev'.names = dev.names
            /\ dev'.active = dev.active
            /\ \A u \in Units \ {dev.active} : dev'.binding[u] = dev.binding[u]
       /\ last'.op \in {"ID", "Width", "Height"} =>
            /\ textures' = textures
            /\ dev' = dev
            /\ last'.val = CASE last'.op = "ID" -> textures[last'.ret[1]].id
                             [] last'.op = "Width" -> textures[last'.ret[1]].width
                             [] OTHER -> textures[last'.ret[1]].height]_vars

\* the first texture, 1 wide and 2 high, is bound after a second one of
\* another size was created
C3_Witness ==
    /\ last.op = "Bind"
    /\ Len(textures) = 2
    /\ last.ret = <<1>>
    /\ Bound(dev) = textures[1].id
    /\ textures[1].width = 1
    /\ textures[1].height = 2
    /\ textures[2].width = 2

\* C8: a creation that returns a texture issues exactly these calls in
\* this order: GenTextures for one name, ActiveTexture(TEXTURE0),
\* BindTexture of the new name, the four TexParameteri (linear min and mag
\* filter, clamp-to-edge on S and T), one TexImage2D, BindTexture of 0; the
\* parameters and the upload are made while the new name is bound.
C8_CallOrder ==
    (last.op \in {"NewTextureFromImage", "NewTextureFromFile", "NewEmptyTexture"}
     /\ last.ret # <<>>) =>
        LET id == textures[last.ret[1]].id
            is(i, fn) == calls[i].fn = fn
        IN  /\ Len(calls) = 9
            /\ is(1, "GenTextures") /\ calls[1].args = <<1>>
            /\ id \in dev.names
            /\ is(2, "ActiveTexture") /\ calls[2].args = <<TEXTURE0>>
            /\ is(3, "BindTexture") /\ calls[3].args = <<"TEXTURE_2D", id>>
            /\ is(4, "TexParameteri")
            /\ calls[4].args = <<"TEXTURE_2D", "TEXTURE_MIN_FILTER", "LINEAR">>
            /\ is(5, "TexParameteri")
            /\ calls[5].args = <<"TEXTURE_2D", "TEXTURE_MAG_FILTER", "LINEAR">>
            /\ is(6, "TexParameteri")
            /\ calls[6].args = <<"TEXTURE_2D", "TEXTURE_WRAP_S", "CLAMP_TO_EDGE">>
            /\ is(7, "TexParameteri")
            /\ calls[7].args = <<"TEXTURE_2D", "TEXTURE_WRAP_T", "CLAMP_TO_EDGE">>
            /\ is(8, "TexImage2D")
            /\ is(9, "BindTexture") /\ calls[9].args = <<"TEXTURE_2D", 0>>
            /\ \A i \in 4..8 : calls[i].on = id /\ id # 0
            /\ dev.active = TEXTURE0
            /\ Bound(dev) = 0

\* the second texture was created empty while the first one was bound
C8_Witness ==
    /\ last.op = "NewEmptyTexture"
    /\ last.ret = <<2>>
    /\ Len(calls) = 9
    /\ calls[1].on = textures[1].id
    /\ calls[8].on = textures[2].id

\* Every creation call allocates one name and returns one texture, and no
\* "unsupported stride" diagnostic is ever printed: image.NewGray and
\* image.NewRGBA return tight rows, so the guards of lines 58 and 77 are
\* never true.
NoStrideFailure ==
    /\ Cardinality(dev.names) = nCreate
    /\ Len(textures) = nCreate
    /\ nStrideFail = 0
    /\ ImageCall => (last.ret # <<>> /\ last.printed = <<>>)

\* C10: the one upload of a NewTextureFromImage that returns a texture is
\* chosen by the image type: Gray16 uploads a new 8-bit gray buffer holding
\* the image's pixels (all of its bounds, taken from the bounds' Min on)
\* with RED as internal and source format; NRGBA uploads the image's own
\* Pix as RGBA; any other type uploads a new RGBA buffer holding the
\* image's pixels as RGBA; always with the texture's width and height and
\* UNSIGNED_BYTE.
C10_UploadByLayout ==
    (ImageCall /\ last.ret # <<>>) =>
        /\ Cardinality(CallsOf("TexImage2D")) = 1
        /\ \A i \in CallsOf("TexImage2D") :
            LET a == calls[i].args
                img == last.image[1]
                t == textures[last.ret[1]]
            IN  /\ a.width = t.width
                /\ a.height = t.height
                /\ a.xtype = "UNSIGNED_BYTE"
                /\ a.internalformat = a.format
                /\ CASE img.type = "Gray16" ->
                        /\ a.format = "RED"
                        /\ a.pixels = Buffer("NewGray", 1 * t.width, img.Rect, "Gray16",
                                            img.Rect, img.Rect.min)
                     [] img.type = "NRGBA" ->
                        /\ a.format = "RGBA"
                        /\ a.pixels = img.Pix
                     [] OTHER ->
                        /\ a.format = "RGBA"
                        /\ a.pixels = Buffer("NewRGBA", 4 * t.width, img.Rect, img.type,
                                            img.Rect, img.Rect.min)

====
